---------------------------- MODULE Spec2Model ----------------------------
(***************************************************************************)
(* Cron expression parser (src/src/index.ts): parseField expands one cron   *)
(* field expression into the sorted list of values it denotes, and          *)
(* parseCronExpression splits a cron line into five fields and a command    *)
(* and renders the report.                                                  *)
(*                                                                          *)
(* A JavaScript string is modelled as a sequence of one-character strings,  *)
(* so that split, includes, indexOf, trim, parseInt, padEnd and join are    *)
(* computed character by character as the runtime computes them.            *)
(***************************************************************************)
EXTENDS Integers, Sequences, FiniteSets, TLC

VARIABLES
    pc,             \* control point of the running call
    caller,         \* who called parseField: "top" (an exported call) or "cron"
    expression,     \* parseField: its argument
    min,            \* parseField: its argument
    max,            \* parseField: its argument
    parts,          \* parseField: expression.split(',')
    idx,            \* parseField: 1-based position of the for-of loop in parts
    values,         \* parseField: the Set, as its elements in insertion order
    cronExpression, \* parseCronExpression: its argument
    tokens,         \* parseCronExpression: cronExpression.trim().split(/\s+/)
    timeFields,     \* parseCronExpression: tokens.slice(0, 5)
    command,        \* parseCronExpression: tokens.slice(5).join(' ')
    output,         \* parseCronExpression: the lines pushed so far
    index,          \* parseCronExpression: forEach index (0-based)
    result,         \* value returned by the outermost call
    error           \* Error thrown out of the outermost call

vars == <<pc, caller, expression, min, max, parts, idx, values, cronExpression,
          tokens, timeFields, command, output, index, result, error>>

fieldVars == <<expression, min, max, parts, idx, values>>
cronVars == <<cronExpression, tokens, timeFields, command, output, index>>

--------------------------------------------------------------------------
(* Characters and JavaScript string primitives *)

Range(s) == {s[i] : i \in 1..Len(s)}

Digits == <<"0", "1", "2", "3", "4", "5", "6", "7", "8", "9">>

IsDigit(c) == c \in Range(Digits)

DigitVal(c) == (CHOOSE d \in 1..10 : Digits[d] = c) - 1

\* The characters /\s/ and String.prototype.trim treat as white space
\* (those that occur in the inputs of this model).
IsSpace(c) == c \in {" ", "\t", "\n"}

\* s.includes(c) for a one-character c
Includes(s, c) == c \in Range(s)

\* s.indexOf(c) for a one-character c: 0-based, -1 when absent
IndexOf(s, c) ==
    IF Includes(s, c)
    THEN (CHOOSE i \in 1..Len(s) : s[i] = c /\ \A j \in 1..(i - 1) : s[j] # c) - 1
    ELSE -1

\* The positions 1..Len(s) of s, in order
Positions(s) == [i \in 1..Len(s) |-> i]

\* s.split(c) for a one-character separator c: the pieces between
\* consecutive separators, before the first and after the last, so the
\* empty string splits into one empty piece.
Split(s, c) ==
    LET seps == SelectSeq(Positions(s), LAMBDA i : s[i] = c)
        cuts == <<0>> \o seps \o <<Len(s) + 1>>
    IN  [k \in 1..(Len(seps) + 1) |-> SubSeq(s, cuts[k] + 1, cuts[k + 1] - 1)]

\* s.split(/\s+/): as Split, a separator being a maximal run of white space
SplitWhitespace(s) ==
    LET starts == SelectSeq(Positions(s),
                    LAMBDA i : IsSpace(s[i]) /\ (i = 1 \/ ~IsSpace(s[i - 1])))
        ends == SelectSeq(Positions(s),
                    LAMBDA i : IsSpace(s[i]) /\ (i = Len(s) \/ ~IsSpace(s[i + 1])))
        from == <<1>> \o [k \in 1..Len(ends) |-> ends[k] + 1]
        to == [k \in 1..Len(starts) |-> starts[k] - 1] \o <<Len(s)>>
    IN  [k \in 1..(Len(starts) + 1) |-> SubSeq(s, from[k], to[k])]

\* s.trim()
Trim(s) ==
    LET inked == SelectSeq(Positions(s), LAMBDA i : ~IsSpace(s[i]))
    IN  IF Len(inked) = 0 THEN <<>> ELSE SubSeq(s, inked[1], inked[Len(inked)])

\* pieces.join(sep): the pieces in order, sep between each two
RECURSIVE Join(_, _)
Join(pieces, sep) ==
    IF Len(pieces) = 0 THEN <<>>
    ELSE IF Len(pieces) = 1 THEN pieces[1]
    ELSE LET half == Len(pieces) \div 2
         IN  Join(SubSeq(pieces, 1, half), sep) \o sep
               \o Join(SubSeq(pieces, half + 1, Len(pieces)), sep)

\* PadEnd one column short
PadEndOneShort(s, n) ==
    IF Len(s) >= n - 1 THEN s ELSE s \o [i \in 1..(n - 1 - Len(s)) |-> " "]

\* s.padEnd(n): spaces appended up to length n
PadEnd(s, n) == IF Len(s) >= n THEN s ELSE s \o [i \in 1..(n - Len(s)) |-> " "]

\* parseInt(s, 10): leading white space is skipped, then an optional sign,
\* then the longest run of decimal digits; NaN when that run is empty.
\* Whatever follows the digits is ignored.
NaN == [nan |-> TRUE, val |-> 0]

Num(n) == [nan |-> FALSE, val |-> n]

RECURSIVE SkipSpace(_)
SkipSpace(s) == IF Len(s) > 0 /\ IsSpace(s[1]) THEN SkipSpace(Tail(s)) ELSE s

RECURSIVE DigitsValue(_, _, _)
DigitsValue(s, i, acc) ==
    IF i <= Len(s) /\ IsDigit(s[i])
    THEN DigitsValue(s, i + 1, acc * 10 + DigitVal(s[i]))
    ELSE acc

ParseInt(s) ==
    LET t == SkipSpace(s)
        neg == Len(t) > 0 /\ t[1] = "-"
        signed == Len(t) > 0 /\ t[1] \in {"-", "+"}
        body == IF signed THEN Tail(t) ELSE t
    IN  IF Len(body) = 0 \/ ~IsDigit(body[1]) THEN NaN
        ELSE Num((IF neg THEN -1 ELSE 1) * DigitsValue(body, 1, 0))

--------------------------------------------------------------------------
(* Errors: new Error(`...`) as the message's fixed text, the string it      *)
(* interpolates (text) and the numbers it interpolates (nums).              *)

Err(msg, text, nums) == [msg |-> msg, text |-> text, nums |-> nums]

NoError == Err("", <<>>, <<>>)

\* FIELD_CONFIGS
FIELD_CONFIGS == <<
    [name |-> <<"m", "i", "n", "u", "t", "e">>, min |-> 0, max |-> 59],
    [name |-> <<"h", "o", "u", "r">>, min |-> 0, max |-> 23],
    [name |-> <<"d", "a", "y", " ", "o", "f", " ", "m", "o", "n", "t", "h">>,
     min |-> 1, max |-> 31],
    [name |-> <<"m", "o", "n", "t", "h">>, min |-> 1, max |-> 12],
    [name |-> <<"d", "a", "y", " ", "o", "f", " ", "w", "e", "e", "k">>,
     min |-> 0, max |-> 6] >>

--------------------------------------------------------------------------
(* parseField: the body of the for-of loop, one sub-expression at a time.   *)
(* Each branch yields [err, values]: the Error it throws (NoError when it   *)
(* throws none) and the Set after the branch.                               *)

\* values.add(x) on a Set kept in insertion order
SetAdd(vs, x) == IF x \in Range(vs) THEN vs ELSE Append(vs, x)

\* SetAddEach on an array instead of a Set: nothing is deduplicated
SetAddEachNoDedup(vs, xs) == vs \o xs

\* values.add(x) for each x of xs in turn, xs without repeats
SetAddEach(vs, xs) == vs \o SelectSeq(xs, LAMBDA x : x \notin Range(vs))

\* The values of i a loop for (let i = from; i <= to; i += step) runs its
\* body with, in order: from, from + step, ... while i <= to (step > 0).
LoopValues(from, to, step) ==
    IF from > to THEN <<>>
    ELSE [k \in 1..((to - from) \div step + 1) |-> from + (k - 1) * step]

\* AddLoop with the window test left out
AddLoopUnfiltered(vs, from, to, step, mn, mx) ==
    SetAddEach(vs, LoopValues(from, to, step))

\* if (i >= min && i <= max) values.add(i), for each i of the loop
AddLoop(vs, from, to, step, mn, mx) ==
    SetAddEach(vs, SelectSeq(LoopValues(from, to, step),
                             LAMBDA i : i >= mn /\ i <= mx))

\* part.includes('/')
IsStepForm(part) == Includes(part, "/")

\* IsRangeForm with the indexOf test left out
IsRangeFormAnyHyphen(part) == ~IsStepForm(part) /\ Includes(part, "-")

\* part.includes('-') && part.indexOf('-') > 0, reached when the part has no '/'
IsRangeForm(part) ==
    ~IsStepForm(part) /\ Includes(part, "-") /\ IndexOf(part, "-") > 0

\* part === '*', reached when the part is neither a step nor a range
IsWildcard(part) == ~IsStepForm(part) /\ ~IsRangeForm(part) /\ part = <<"*">>

\* the final else
IsSingleValue(part) ==
    ~IsStepForm(part) /\ ~IsRangeForm(part) /\ ~IsWildcard(part)

\* isNaN(step) || step <= 0
StepInvalid(step) == step.nan \/ step.val <= 0

\* StepInterval with '*' stepping from 0 instead of from min
StepIntervalFromZero(range, mn, mx) ==
    IF range = <<"*">> THEN [err |-> NoError, rangeMin |-> 0, rangeMax |-> mx]
    ELSE IF Includes(range, "-")
    THEN LET pieces == Split(range, "-")
             start == ParseInt(pieces[1])
             end == ParseInt(pieces[2])
         IN  IF start.nan \/ end.nan
             THEN [err |-> Err("Invalid range in step expression: ", range, <<>>),
                   rangeMin |-> mn, rangeMax |-> mx]
             ELSE [err |-> NoError, rangeMin |-> start.val, rangeMax |-> end.val]
    ELSE LET start == ParseInt(range)
         IN  IF start.nan
             THEN [err |-> Err("Invalid value in step expression: ", range, <<>>),
                   rangeMin |-> mn, rangeMax |-> mx]
             ELSE [err |-> NoError, rangeMin |-> start.val, rangeMax |-> mx]

\* The stepping interval of a step form: [err, rangeMin, rangeMax]
StepInterval(range, mn, mx) ==
    IF range = <<"*">> THEN [err |-> NoError, rangeMin |-> mn, rangeMax |-> mx]
    ELSE IF Includes(range, "-")
    THEN LET pieces == Split(range, "-")
             start == ParseInt(pieces[1])
             end == ParseInt(pieces[2])
         IN  IF start.nan \/ end.nan
             THEN [err |-> Err("Invalid range in step expression: ", range, <<>>),
                   rangeMin |-> mn, rangeMax |-> mx]
             ELSE [err |-> NoError, rangeMin |-> start.val, rangeMax |-> end.val]
    ELSE LET start == ParseInt(range)
         IN  IF start.nan
             THEN [err |-> Err("Invalid value in step expression: ", range, <<>>),
                   rangeMin |-> mn, rangeMax |-> mx]
             ELSE [err |-> NoError, rangeMin |-> start.val, rangeMax |-> mx]

\* StepBranch with the interval examined before the step
StepBranchIntervalFirst(part, mn, mx, vs) ==
    LET pieces == Split(part, "/")
        range == pieces[1]
        stepStr == pieces[2]
        step == ParseInt(stepStr)
        iv == StepInterval(range, mn, mx)
    IN  IF iv.err # NoError THEN [err |-> iv.err, values |-> vs]
        ELSE IF StepInvalid(step)
        THEN [err |-> Err("Invalid step value: ", stepStr, <<>>), values |-> vs]
        ELSE [err |-> NoError,
              values |-> AddLoop(vs, iv.rangeMin, iv.rangeMax, step.val, mn, mx)]

\* The step branch: const [range, stepStr] = part.split('/'), the step is
\* checked first, then the interval, then the loop.
StepBranch(part, mn, mx, vs) ==
    LET pieces == Split(part, "/")
        range == pieces[1]
        stepStr == pieces[2]
        step == ParseInt(stepStr)
        iv == StepInterval(range, mn, mx)
    IN  IF StepInvalid(step)
        THEN [err |-> Err("Invalid step value: ", stepStr, <<>>), values |-> vs]
        ELSE IF iv.err # NoError THEN [err |-> iv.err, values |-> vs]
        ELSE [err |-> NoError,
              values |-> AddLoop(vs, iv.rangeMin, iv.rangeMax, step.val, mn, mx)]

\* RangeBranch with the start > end test left out
RangeBranchNoOrderTest(part, mn, mx, vs) ==
    LET pieces == Split(part, "-")
        start == ParseInt(pieces[1])
        end == ParseInt(pieces[2])
    IN  IF start.nan \/ end.nan
        THEN [err |-> Err("Invalid range: ", part, <<>>), values |-> vs]
        ELSE [err |-> NoError,
              values |-> AddLoop(vs, start.val, end.val, 1, mn, mx)]

\* The range branch
RangeBranch(part, mn, mx, vs) ==
    LET pieces == Split(part, "-")
        start == ParseInt(pieces[1])
        end == ParseInt(pieces[2])
    IN  IF start.nan \/ end.nan
        THEN [err |-> Err("Invalid range: ", part, <<>>), values |-> vs]
        ELSE IF start.val > end.val
        THEN [err |-> Err("Invalid range: start () > end ()", <<>>,
                          <<start.val, end.val>>),
              values |-> vs]
        ELSE [err |-> NoError,
              values |-> AddLoop(vs, start.val, end.val, 1, mn, mx)]

\* The wildcard branch: for (let i = min; i <= max; i++) values.add(i)
WildcardBranch(part, mn, mx, vs) ==
    [err |-> NoError, values |-> SetAddEach(vs, LoopValues(mn, mx, 1))]

\* The single-value branch
ValueBranch(part, mn, mx, vs) ==
    LET value == ParseInt(part)
    IN  IF value.nan
        THEN [err |-> Err("Invalid value: ", part, <<>>), values |-> vs]
        ELSE IF value.val >= mn /\ value.val <= mx
        THEN [err |-> NoError, values |-> SetAdd(vs, value.val)]
        ELSE [err |-> Err("Value  out of range [-]", <<>>, <<value.val, mn, mx>>),
              values |-> vs]

\* SortAscending with the sort left out
SortOmitted(vs) == vs

\* Array.from(values).sort((a, b) => a - b): the stable sort under the
\* comparator, given by each element's position in the sorted array (the
\* number of elements the comparator puts before it, plus one).
SortPosition(vs, i) ==
    Cardinality({j \in 1..Len(vs) :
                    vs[j] - vs[i] < 0 \/ (vs[j] - vs[i] = 0 /\ j < i)}) + 1

SortAscending(vs) ==
    LET position == [i \in 1..Len(vs) |-> SortPosition(vs, i)] \o <<>>
    IN  [k \in 1..Len(vs) |-> vs[CHOOSE i \in 1..Len(vs) : position[i] = k]]

\* One iteration of the for-of loop on sub-expression part: the branch the
\* if / else-if chain takes
PartBranch(part, mn, mx, vs) ==
    IF IsStepForm(part) THEN StepBranch(part, mn, mx, vs)
    ELSE IF IsRangeForm(part) THEN RangeBranch(part, mn, mx, vs)
    ELSE IF IsWildcard(part) THEN WildcardBranch(part, mn, mx, vs)
    ELSE ValueBranch(part, mn, mx, vs)

\* The for-of loop from position i on: it stops at the first throw
RECURSIVE PartsLoop(_, _, _, _, _)
PartsLoop(ps, i, mn, mx, vs) ==
    IF i > Len(ps) THEN [err |-> NoError, values |-> vs]
    ELSE LET r == PartBranch(ps[i], mn, mx, vs)
         IN  IF r.err # NoError THEN r ELSE PartsLoop(ps, i + 1, mn, mx, r.values)

\* parseField(expression, min, max) as a function: the Error it throws
\* (NoError when it returns) and the array it returns
ParseFieldError(e, mn, mx) == PartsLoop(Split(e, ","), 1, mn, mx, <<>>).err

ParseFieldResult(e, mn, mx) ==
    SortAscending(PartsLoop(Split(e, ","), 1, mn, mx, <<>>).values)

\* String(n), as Array.prototype.join renders a number
RECURSIVE NatToString(_)
NatToString(n) ==
    IF n < 10 THEN <<Digits[n + 1]>>
    ELSE Append(NatToString(n \div 10), Digits[(n % 10) + 1])

NumberToString(n) == IF n < 0 THEN <<"-">> \o NatToString(-n) ELSE NatToString(n)

--------------------------------------------------------------------------
(* Inputs of the exported parseField *)

\* Most comma-separated sub-expressions in an expression passed to parseField
MaxParts == 2

\* The sub-expressions the expressions are built from: every branch of the
\* loop, with its accepting and its throwing cases.
SubExpressions == {
    <<"*">>,                                   \* wildcard
    <<"3">>,                                   \* in every field's window
    <<"0">>,                                   \* below min where min = 1
    <<"1", "2">>,                              \* above max where max = 6
    <<"6", "0">>,                              \* above every max
    <<"-", "1">>,                              \* leading '-': a negative value
    <<"a", "b", "c">>,                         \* not a number
    <<"1", "-", "5">>,                         \* range
    <<"5", "-", "2">>,                         \* range, start > end
    <<"4", "-", "6", "2">>,                    \* range reaching past max
    <<"6", "1", "-", "6", "3">>,               \* range wholly past max
    <<"1", "-", "b">>,                         \* range, end not a number
    <<"*", "/", "4">>,                         \* step over the whole window
    <<"*", "/", "0">>,                         \* step zero
    <<"*", "/", "-", "5">>,                    \* step negative
    <<"a", "/", "x">>,                         \* step and range both not numbers
    <<"2", "-", "9", "/", "3">>,               \* range with step
    <<"5", "-", "2", "/", "1">>,               \* range with step, start > end
    <<"5", "/", "1", "0">>,                    \* single value with step
    <<"a", "/", "2">>,                         \* step form, value not a number
    <<"-", "5", "/", "2">>,                    \* step form, leading '-'
    <<"1", "-", "b", "/", "2">>,               \* step form, end not a number
    <<"a", "/", "0">>,                         \* step zero, value not a number
    <<"1", "/", "2", "/", "3">>,               \* a second '/'
    <<"1", "-", "2", "-", "3">>,               \* a second '-'
    <<"-", "1", "-", "5">>,                    \* leading '-' and another '-'
    <<"7", "x">>,                              \* digits, then something else
    <<>> }                                     \* empty, as between two commas

\* The expressions: 1..MaxParts sub-expressions joined by commas
RECURSIVE Expressions(_)
Expressions(n) ==
    IF n = 1 THEN SubExpressions
    ELSE Expressions(n - 1) \cup
         {e \o <<",">> \o p : e \in Expressions(n - 1), p \in SubExpressions}

--------------------------------------------------------------------------
(* parseField, as a state machine *)

Idle ==
    /\ pc = "idle"
    /\ caller = "none"
    /\ expression = <<>> /\ min = 0 /\ max = 0
    /\ parts = <<>> /\ idx = 0 /\ values = <<>>
    /\ cronExpression = <<>> /\ tokens = <<>> /\ timeFields = <<>>
    /\ command = <<>> /\ output = <<>> /\ index = 0
    /\ result = <<>> /\ error = NoError

Init == Idle

\* The entry of parseField(e, mn, mx), up to the head of the loop
EnterParseField(e, mn, mx) ==
    /\ expression' = e
    /\ min' = mn
    /\ max' = mx
    /\ values' = <<>>
    /\ parts' = Split(e, ",")
    /\ idx' = 1
    /\ pc' = "loop"

\* A caller outside the module calls the exported parseField
CallParseField ==
    /\ pc = "idle"
    /\ \E e \in Expressions(MaxParts), c \in 1..Len(FIELD_CONFIGS) :
          EnterParseField(e, FIELD_CONFIGS[c].min, FIELD_CONFIGS[c].max)
    /\ caller' = "top"
    /\ UNCHANGED <<cronVars, result, error>>

\* Iterate with the Error caught and the sub-expression skipped
IterateSwallowing(r) ==
    /\ values' = r.values
    /\ idx' = idx + 1
    /\ UNCHANGED <<pc, error>>
    /\ UNCHANGED <<caller, expression, min, max, parts, cronVars, result>>

\* One iteration of the loop, given what its branch yields: a throw leaves
\* parseField (and parseCronExpression, which catches nothing) at once.
Iterate(r) ==
    /\ IF r.err # NoError
       THEN /\ pc' = "thrown"
            /\ error' = r.err
            /\ UNCHANGED <<values, idx>>
       ELSE /\ values' = r.values
            /\ idx' = idx + 1
            /\ UNCHANGED <<pc, error>>
    /\ UNCHANGED <<caller, expression, min, max, parts, cronVars, result>>

AtPart == pc = "loop" /\ idx <= Len(parts)

StepPart ==
    /\ AtPart
    /\ IsStepForm(parts[idx])
    /\ Iterate(StepBranch(parts[idx], min, max, values))

RangePart ==
    /\ AtPart
    /\ IsRangeForm(parts[idx])
    /\ Iterate(RangeBranch(parts[idx], min, max, values))

WildcardPart ==
    /\ AtPart
    /\ IsWildcard(parts[idx])
    /\ Iterate(WildcardBranch(parts[idx], min, max, values))

ValuePart ==
    /\ AtPart
    /\ IsSingleValue(parts[idx])
    /\ Iterate(ValueBranch(parts[idx], min, max, values))

\* The loop is over: parseField returns the sorted array to the outside caller
ReturnField ==
    /\ pc = "loop" /\ idx > Len(parts)
    /\ caller = "top"
    /\ result' = SortAscending(values)
    /\ pc' = "returned"
    /\ UNCHANGED <<caller, fieldVars, cronVars, error>>

FieldNext ==
    \/ CallParseField
    \/ StepPart
    \/ RangePart
    \/ WildcardPart
    \/ ValuePart
    \/ ReturnField

SpecField == Init /\ [][FieldNext]_vars


--------------------------------------------------------------------------
(* Inputs of the exported parseCronExpression *)

\* Most words in the command of a cron line
MaxCommandWords == 2

\* The field expressions the lines are built from: accepted by every field,
\* accepted by some fields only, and rejected in their first or in a later
\* sub-expression.
FieldTexts == {
    <<"*">>,
    <<"0">>,
    <<"1", "-", "5", ",", "*", "/", "4">>,
    <<"5", "-", "2">>,
    <<"3", ",", "a", ",", "6", "0">> }

\* The k-th word of a command
CommandWord(k) == IF k = 1 THEN <<"/", "x">> ELSE <<"-", Digits[(k % 10) + 1]>>

Commands == {[k \in 1..n |-> CommandWord(k)] : n \in 1..MaxCommandWords}

\* The white space around and between the tokens of a line
Layouts == {
    [lead |-> <<>>, gap |-> <<" ">>, trail |-> <<>>],
    [lead |-> <<" ">>, gap |-> <<" ", "\t">>, trail |-> <<" ", "\n">>] }

\* Token lists: up to five field expressions and no command, or five field
\* expressions and a command
TokenLists ==
    UNION {[1..n -> FieldTexts] : n \in 0..5}
      \cup {fs \o cmd : fs \in [1..5 -> FieldTexts], cmd \in Commands}

CronLines == {l.lead \o Join(ts, l.gap) \o l.trail : ts \in TokenLists, l \in Layouts}

--------------------------------------------------------------------------
(* parseCronExpression, as a state machine around parseField *)

\* TooFewParts with the bound one too low
TooFewPartsBelowFive(ps) == Len(ps) < 5

\* parts.length < 6
TooFewParts(ps) == Len(ps) < 6

\* new Error(`Invalid cron expression. Expected at least 6 fields, got ${n}. ...`)
MalformedError(n) ==
    Err("Invalid cron expression. Expected at least 6 fields, got . Format: <minute> <hour> <day of month> <month> <day of week> <command>",
        <<>>, <<n>>)

\* parseCronExpression(line), up to the forEach: the split, the length check,
\* the slices
CallParseCronExpression ==
    /\ pc = "idle"
    /\ \E line \in CronLines :
          LET ps == SplitWhitespace(Trim(line))
          IN  /\ cronExpression' = line
              /\ tokens' = ps
              /\ IF TooFewParts(ps)
                 THEN /\ pc' = "thrown"
                      /\ error' = MalformedError(Len(ps))
                      /\ UNCHANGED <<timeFields, command>>
                 ELSE /\ pc' = "forEach"
                      /\ timeFields' = SubSeq(ps, 1, 5)
                      /\ command' = Join(SubSeq(ps, 6, Len(ps)), <<" ">>)
                      /\ UNCHANGED error
    /\ output' = <<>>
    /\ index' = 0
    /\ UNCHANGED <<caller, fieldVars, result>>

\* The forEach callback on timeFields[index] calls parseField with the
\* bounds of FIELD_CONFIGS[index]
CallbackParseField ==
    /\ pc = "forEach" /\ index < Len(timeFields)
    /\ EnterParseField(timeFields[index + 1], FIELD_CONFIGS[index + 1].min,
                       FIELD_CONFIGS[index + 1].max)
    /\ caller' = "cron"
    /\ UNCHANGED <<cronVars, result, error>>

\* `${config.name.padEnd(14)}${values.join(' ')}`
FieldLine(name, vs) ==
    PadEnd(name, 14) \o Join([i \in 1..Len(vs) |-> NumberToString(vs[i])], <<" ">>)

\* parseField returns into the callback, which pushes the field's line
ReturnToCallback ==
    /\ pc = "loop" /\ idx > Len(parts)
    /\ caller = "cron"
    /\ output' = Append(output,
                        FieldLine(FIELD_CONFIGS[index + 1].name, SortAscending(values)))
    /\ index' = index + 1
    /\ pc' = "forEach"
    /\ UNCHANGED <<caller, fieldVars, cronExpression, tokens, timeFields, command,
                   result, error>>

\* After the forEach: the command line is pushed and the lines are joined
ReturnReport ==
    /\ pc = "forEach" /\ index = Len(timeFields)
    /\ output' = Append(output, PadEnd(<<"c", "o", "m", "m", "a", "n", "d">>, 14) \o command)
    /\ result' = Join(output', <<"\n">>)
    /\ pc' = "returned"
    /\ UNCHANGED <<caller, fieldVars, cronExpression, tokens, timeFields, command,
                   index, error>>

CronNext ==
    \/ CallParseCronExpression
    \/ CallbackParseField
    \/ StepPart
    \/ RangePart
    \/ WildcardPart
    \/ ValuePart
    \/ ReturnToCallback
    \/ ReturnReport

SpecCron == Init /\ [][CronNext]_vars

--------------------------------------------------------------------------
(* The error taxonomy, by message *)

IsInvalidStep(e) == e.msg = "Invalid step value: "

IsInvalidRange(e) ==
    e.msg \in {"Invalid range: ", "Invalid range: start () > end ()",
               "Invalid range in step expression: "}

IsInvalidValue(e) ==
    e.msg \in {"Invalid value: ", "Invalid value in step expression: "}

IsOutOfRange(e) == e.msg = "Value  out of range [-]"

IsMalformedExpression(e) == e.msg = MalformedError(0).msg

--------------------------------------------------------------------------
(* What a sub-expression denotes, stated without the loops of the code *)

Window == min..max

\* The two sides of the first '/' of a step form
RangeText(part) == Split(part, "/")[1]
StepText(part) == Split(part, "/")[2]

\* A sub-expression in range form: no '/', and its first '-' after index 0
RangeShaped(part) == ~Includes(part, "/") /\ IndexOf(part, "-") > 0

\* A bare single value: no '/', no '-' or its first '-' at index 0, not '*'
BareShaped(part) ==
    ~Includes(part, "/") /\ IndexOf(part, "-") <= 0 /\ part # <<"*">>

\* The two bounds of 'start-end'
StartOf(text) == ParseInt(Split(text, "-")[1])
EndOf(text) == ParseInt(Split(text, "-")[2])

\* A step form whose step is an integer > 0 and whose range part is '*',
\* 'start-end' with two integers, or one integer without a '-'
SteppedShaped(part) ==
    /\ Includes(part, "/")
    /\ ~ParseInt(StepText(part)).nan
    /\ ParseInt(StepText(part)).val > 0
    /\ LET range == RangeText(part)
       IN  \/ range = <<"*">>
           \/ Includes(range, "-") /\ ~StartOf(range).nan /\ ~EndOf(range).nan
           \/ ~Includes(range, "-") /\ ~ParseInt(range).nan

\* The interval a step form steps over
SteppedFrom(part) ==
    LET range == RangeText(part)
    IN  IF range = <<"*">> THEN min
        ELSE IF Includes(range, "-") THEN StartOf(range).val
        ELSE ParseInt(range).val

SteppedTo(part) ==
    LET range == RangeText(part)
    IN  IF Includes(range, "-") /\ range # <<"*">> THEN EndOf(range).val ELSE max

\* { rangeMin + k*s : k >= 0, rangeMin + k*s <= rangeMax }
Stepped(part) ==
    {x \in SteppedFrom(part)..SteppedTo(part) :
        (x - SteppedFrom(part)) % ParseInt(StepText(part)).val = 0}

\* The loop has gone past sub-expression idx without a throw
Passed == pc' = "loop" /\ idx' = idx + 1 /\ error' = NoError

\* The loop has thrown at sub-expression idx, leaving the Set as it was
Thrown == pc' = "thrown" /\ idx' = idx /\ values' = values

StrictlyIncreasing(seq) == \A i \in 1..(Len(seq) - 1) : seq[i] < seq[i + 1]

--------------------------------------------------------------------------
(* Claims about parseField *)

\* C1: whenever parseField returns, the returned array is strictly
\* increasing (so without duplicates) and each of its elements lies in
\* [min, max], for each of the five FIELD_CONFIGS bounds and any mix of
\* wildcard, single-value, range and step sub-expressions.
C1_SortedWithinBounds ==
    (pc = "returned" /\ caller = "top") =>
        /\ StrictlyIncreasing(result)
        /\ \A i \in 1..Len(result) : min <= result[i] /\ result[i] <= max

\* parseField has returned an array the sort reordered, from two
\* sub-expressions of different forms
C1_Witness ==
    /\ pc = "returned" /\ caller = "top"
    /\ Len(parts) = 2 /\ IsStepForm(parts[1]) /\ IsRangeForm(parts[2])
    /\ Len(result) > 3 /\ result # values

\* C2: a bare single value (no '/', no '-' after index 0, not '*') whose
\* parsed integer lies outside [min, max] makes the loop throw the
\* out-of-range Error, whose message carries the value and both bounds; a
\* value with a leading '-' is such a value, not a range.
C2_SingleOutOfRange ==
    [][(AtPart /\ BareShaped(parts[idx]) /\ ~ParseInt(parts[idx]).nan
          /\ ParseInt(parts[idx]).val \notin Window)
        => /\ Thrown
           /\ IsOutOfRange(error')
           /\ error'.nums = <<ParseInt(parts[idx]).val, min, max>>]_vars

\* "-1" has been rejected as the value -1 out of range
C2_Witness ==
    /\ pc = "thrown" /\ idx \in 1..Len(parts)
    /\ parts[idx] = <<"-", "1">>
    /\ IsOutOfRange(error) /\ error.nums = <<-1, min, max>>

\* The integers a range form or a step form generates
Generated(part) ==
    IF RangeShaped(part) THEN StartOf(part).val..EndOf(part).val ELSE Stepped(part)

\* A well-formed range (two integers, start <= end) or step sub-expression
\* that generates an integer outside [min, max]
ReachesOutside(part) ==
    /\ \/ RangeShaped(part) /\ ~StartOf(part).nan /\ ~EndOf(part).nan
                            /\ StartOf(part).val <= EndOf(part).val
       \/ SteppedShaped(part)
    /\ Generated(part) \ Window # {}

\* C3: a well-formed range or step sub-expression that generates integers
\* outside [min, max] does not throw: the Set gains exactly the generated
\* integers that lie in [min, max] (possibly none), while each dropped
\* integer, written as a bare single value, is rejected as out of range.
C3_SilentFiltering ==
    [][(AtPart /\ ReachesOutside(parts[idx]))
        => /\ Passed
           /\ Range(values') = Range(values) \cup (Generated(parts[idx]) \cap Window)
           /\ \A g \in Generated(parts[idx]) \ Window :
                 IsOutOfRange(ValueBranch(NumberToString(g), min, max, values).err)]_vars

\* "61-63", wholly above every max, has been passed and has added nothing
C3_Witness ==
    /\ pc = "loop" /\ idx = 2
    /\ parts[1] = <<"6", "1", "-", "6", "3">>
    /\ values = <<>>

\* C4: a sub-expression with a '/' whose step text is not an integer > 0
\* (not a number, zero, negative) makes the loop throw the invalid-step
\* Error, whatever its range part is, and adds nothing to the Set.
C4_InvalidStep ==
    [][(AtPart /\ Includes(parts[idx], "/")
          /\ (ParseInt(StepText(parts[idx])).nan
                \/ ParseInt(StepText(parts[idx])).val <= 0))
        => /\ Thrown
           /\ IsInvalidStep(error')
           /\ error'.text = StepText(parts[idx])]_vars

\* "a/0", whose range part is no number either, has been rejected for its step
C4_Witness ==
    /\ pc = "thrown" /\ idx \in 1..Len(parts)
    /\ parts[idx] = <<"a", "/", "0">>
    /\ IsInvalidStep(error)

C10_UnionOfParts ==
    (pc \in {"returned", "thrown"} /\ caller = "top"
       /\ \A k \in 1..Len(parts) : ParseFieldError(parts[k], min, max) = NoError)
    => /\ pc = "returned"
       /\ StrictlyIncreasing(result)
       /\ Range(result) =
            UNION {Range(ParseFieldResult(parts[k], min, max)) : k \in 1..Len(parts)}

\* parseField has returned on two overlapping sub-expressions, the second
\* holding values below the first's
C10_Witness ==
    /\ pc = "returned" /\ caller = "top" /\ Len(parts) = 2
    /\ parts[1] # parts[2]
    /\ Range(ParseFieldResult(parts[1], min, max))
         \cap Range(ParseFieldResult(parts[2], min, max)) # {}
    /\ result # values

\* An integer written out: an optional sign, then digits and nothing else
IntegerText(part) ==
    LET body == IF Len(part) > 0 /\ part[1] \in {"-", "+"} THEN Tail(part)
                ELSE part
    IN  Len(body) > 0 /\ \A i \in 1..Len(body) : IsDigit(body[i])

\* C11: a sub-expression that is none of step form, range form or '*' is
\* accepted only if it is a bare integer: one that is not an integer (empty,
\* alphabetic, or digits followed by other characters) makes the loop throw
\* the invalid-value Error, and one that is an integer within [min, max]
\* adds exactly that value.
C11_BareInteger ==
    [][(AtPart /\ BareShaped(parts[idx]))
        => IF IntegerText(parts[idx])
           THEN ParseInt(parts[idx]).val \in Window
                  => Passed /\ values' = SetAdd(values, ParseInt(parts[idx]).val)
           ELSE Thrown /\ IsInvalidValue(error')]_vars


--------------------------------------------------------------------------
(* What a cron line holds, stated without the split of the code *)

\* The tokens of a line: its maximal runs of characters that are not white
\* space, in order
Words(line) ==
    LET starts == SelectSeq(Positions(line),
                    LAMBDA i : ~IsSpace(line[i]) /\ (i = 1 \/ IsSpace(line[i - 1])))
        ends == SelectSeq(Positions(line),
                    LAMBDA i : ~IsSpace(line[i])
                                 /\ (i = Len(line) \/ IsSpace(line[i + 1])))
    IN  [k \in 1..Len(starts) |-> SubSeq(line, starts[k], ends[k])]

Spaces(n) == [i \in 1..n |-> " "]

\* The report's columns: the label in its 14 characters, and the bounds
ReportColumns == <<
    [label |-> <<"m", "i", "n", "u", "t", "e">> \o Spaces(8), min |-> 0, max |-> 59],
    [label |-> <<"h", "o", "u", "r">> \o Spaces(10), min |-> 0, max |-> 23],
    [label |-> <<"d", "a", "y", " ", "o", "f", " ", "m", "o", "n", "t", "h">> \o Spaces(2),
     min |-> 1, max |-> 31],
    [label |-> <<"m", "o", "n", "t", "h">> \o Spaces(9), min |-> 1, max |-> 12],
    [label |-> <<"d", "a", "y", " ", "o", "f", " ", "w", "e", "e", "k">> \o Spaces(3),
     min |-> 0, max |-> 6] >>

CommandLabel == <<"c", "o", "m", "m", "a", "n", "d">> \o Spaces(7)

\* A report line reads as label, then the numbers ns in decimal with one
\* space between each two
ReadsAs(line, label, ns) ==
    /\ Len(line) >= 14
    /\ SubSeq(line, 1, 14) = label
    /\ LET rest == SubSeq(line, 15, Len(line))
           texts == IF rest = <<>> THEN <<>> ELSE Split(rest, " ")
       IN  /\ Len(texts) = Len(ns)
           /\ \A k \in 1..Len(ns) : texts[k] = NumberToString(ns[k])
           /\ \A k \in 1..Len(ns) : ParseInt(texts[k]) = Num(ns[k])

\* The sub-expressions of the i-th token of the line that parseField, given
\* one alone with the i-th field's bounds, rejects
FailingParts(ws, i) ==
    LET subs == Split(ws[i], ",")
    IN  {k \in 1..Len(subs) :
            ParseFieldError(subs[k], ReportColumns[i].min, ReportColumns[i].max) # NoError}

InvalidFields(ws) == {i \in 1..5 : FailingParts(ws, i) # {}}

Least(S) == CHOOSE x \in S : \A y \in S : x <= y

--------------------------------------------------------------------------
(* Claims about parseCronExpression *)

C7_Report ==
    (pc = "returned" /\ caller = "cron") =>
        LET ws == Words(cronExpression)
            lines == Split(result, "\n")
        IN  /\ Len(lines) = 6
            /\ \A i \in 1..5 :
                  /\ ParseFieldError(ws[i], ReportColumns[i].min, ReportColumns[i].max)
                       = NoError
                  /\ ReadsAs(lines[i], ReportColumns[i].label,
                             ParseFieldResult(ws[i], ReportColumns[i].min,
                                              ReportColumns[i].max))
            /\ Len(lines[6]) > 14
            /\ SubSeq(lines[6], 1, 14) = CommandLabel
            /\ Split(SubSeq(lines[6], 15, Len(lines[6])), " ") = SubSeq(ws, 6, Len(ws))

\* A report has been returned for a line with runs of white space, a field
\* of two sub-expressions and a command of two words
C7_Witness ==
    /\ pc = "returned" /\ caller = "cron"
    /\ Len(tokens) = 7
    /\ Len(cronExpression) > Len(Join(tokens, <<" ">>))
    /\ timeFields[1] = <<"1", "-", "5", ",", "*", "/", "4">>
    /\ timeFields[3] = <<"*">>

\* C8: on a line of at least 6 tokens with invalid fields, the fields before
\* the first invalid one (in the order minute, hour, day of month, month,
\* day of week) are the only ones expanded, in the first invalid field the
\* loop goes no further than the leftmost failing sub-expression, the Error
\* thrown is that sub-expression's, and no report is returned.
C8_FirstFailure ==
    pc # "idle" =>
        LET ws == Words(cronExpression)
            invalid == InvalidFields(ws)
        IN  (Len(ws) >= 6 /\ invalid # {}) =>
                LET f == Least(invalid)
                    k == Least(FailingParts(ws, f))
                    sub == Split(ws[f], ",")[k]
                IN  /\ pc # "returned" /\ result = <<>>
                    /\ index < f
                    /\ (index = f - 1 /\ pc \in {"loop", "thrown"}) => idx <= k
                    /\ pc = "thrown" =>
                         /\ index = f - 1 /\ idx = k
                         /\ error = ParseFieldError(sub, ReportColumns[f].min,
                                                    ReportColumns[f].max)

\* The third field has failed at its second sub-expression, with a failing
\* sub-expression after it and an invalid field after it
C8_Witness ==
    /\ pc = "thrown" /\ Len(tokens) >= 6
    /\ index = 2 /\ idx = 2
    /\ timeFields[3] = <<"3", ",", "a", ",", "6", "0">>
    /\ timeFields[4] = <<"5", "-", "2">>
    /\ IsInvalidValue(error) /\ error.text = <<"a">>


==========================================================================
